---- MODULE Spec2Model ----
(***************************************************************************)
(* A model of package rest of go-core: one call of Client.Request          *)
(* (src/rest/client.go:69-179) against a transport and a caller context    *)
(* that behave nondeterministically, with the error classifier of          *)
(* src/rest/errors.go.                                                     *)
(***************************************************************************)
EXTENDS Integers, Sequences, FiniteSets, TLC

(***************************************************************************)
(* Bounds of the model.                                                    *)
(***************************************************************************)
\* Client.Retries ranges over 0..MaxRetries (NewClient sets 3, the field is public).
MaxRetries == 3

(***************************************************************************)
(* HTTP status codes the classifier names (net/http constants).            *)
(***************************************************************************)
StatusUnauthorized == 401
StatusNotFound == 404
StatusUnprocessableEntity == 422

\* The status codes a response may carry: both edges of every range the code tests.
Statuses == {101, 199, 200, 204, 299, 300, 304, 399, 400, 401, 404, 409, 422, 499, 500, 503}

(***************************************************************************)
(* Sentinel errors, src/rest/errors.go:10-34, named by their variable.     *)
(***************************************************************************)
ErrInvalidRequest == "ErrInvalidRequest"
ErrUnauthorized == "ErrUnauthorized"
ErrResourceNotFound == "ErrResourceNotFound"
ErrServerError == "ErrServerError"
ErrConnectionFailed == "ErrConnectionFailed"
ErrTimeout == "ErrTimeout"
ErrUnprocessableEntity == "ErrUnprocessableEntity"
ErrInvalidResponse == "ErrInvalidResponse"

Sentinels ==
    { ErrInvalidRequest, ErrUnauthorized, ErrResourceNotFound, ErrServerError,
      ErrConnectionFailed, ErrTimeout, ErrUnprocessableEntity, ErrInvalidResponse }

(***************************************************************************)
(* Error values.  Every error is a record of the same shape:               *)
(*   type    the Go type of the value ("nil" for no error)                 *)
(*   kind    ClientError.Err, or what errors.Is finds in a wrapped error   *)
(*   message ClientError.Message, or the error's own text                  *)
(*   code    ClientError.Code                                              *)
(***************************************************************************)
NilError == [type |-> "nil", kind |-> "", message |-> "", code |-> ""]

\* &ClientError{Err: kind, Message: message, Code: code}
ClientError(kind, message, code) ==
    [type |-> "ClientError", kind |-> kind, message |-> message, code |-> code]

\* fmt.Errorf("<text>: %w", err) of a json.Marshal or http.NewRequest failure
WrapError(text) ==
    [type |-> "fmt.wrapError", kind |-> "", message |-> text, code |-> ""]

\* The error HTTPClient.Do returns (a *url.Error): e.is is what errors.Is finds in it.
TransportError(e) ==
    [type |-> "url.Error", kind |-> e.is, message |-> e.text, code |-> ""]

\* ctx.Err() of a done context
CtxError(ctxErr) ==
    [type |-> "context", kind |-> ctxErr, message |-> ctxErr, code |-> ""]

(***************************************************************************)
(* errors.Is on these values.  ErrValue(kind) is the error a ClientError   *)
(* holds in Err: a sentinel, or the fmt.Errorf value of the classifier.    *)
(***************************************************************************)
ErrValue(kind) == [type |-> "error", kind |-> kind, message |-> kind, code |-> ""]

\* A ClientError without an Unwrap method.
ClientErrorUnwrap_None(e) == NilError

\* ClientError.Unwrap, src/rest/errors.go:51-54
ClientErrorUnwrap(e) == ErrValue(e.kind)

\* The Unwrap method of each error type: *url.Error and the %w error of
\* fmt.Errorf unwrap to what they wrap, the other values have none.
GoUnwrap(e) ==
    IF e.type = "ClientError" THEN ClientErrorUnwrap(e)
    ELSE IF e.type = "url.Error" /\ e.kind # "none"
      THEN [type |-> "context", kind |-> e.kind, message |-> e.kind, code |-> ""]
    ELSE NilError

\* errors.Is(e, target): e or an error of its Unwrap chain is target.
RECURSIVE ErrorsIs(_, _)
ErrorsIs(e, target) ==
    IF e = NilError THEN FALSE
    ELSE IF e = target THEN TRUE
    ELSE ErrorsIs(GoUnwrap(e), target)

(***************************************************************************)
(* getErrorByStatusCode, src/rest/errors.go:65-81: the first matching case.*)
(***************************************************************************)
\* The classifier with the range cases tested before the three special codes.
getErrorByStatusCode_NoSpecialCases(statusCode) ==
    IF statusCode >= 400 /\ statusCode < 500 THEN ErrInvalidRequest
    ELSE IF statusCode >= 500 THEN ErrServerError
    ELSE "unexpected status: " \o ToString(statusCode)

getErrorByStatusCode(statusCode) ==
    IF statusCode = StatusUnauthorized THEN ErrUnauthorized
    ELSE IF statusCode = StatusNotFound THEN ErrResourceNotFound
    ELSE IF statusCode = StatusUnprocessableEntity THEN ErrUnprocessableEntity
    ELSE IF statusCode >= 400 /\ statusCode < 500 THEN ErrInvalidRequest
    ELSE IF statusCode >= 500 THEN ErrServerError
    ELSE "unexpected status: " \o ToString(statusCode)

(***************************************************************************)
(* Response bodies.  A body is its raw text together with what a JSON      *)
(* parser sees in it:                                                      *)
(*   json    "invalid" (not JSON), "null", "array" or "object"             *)
(*   message the string at key "message" of an object, Absent without it   *)
(*   code    the string at key "code", Absent without it, NumberValue when *)
(*           the value there is a JSON number                              *)
(***************************************************************************)
Absent == "<absent>"
NumberValue == "<number>"

Doc(raw, json, message, code) ==
    [raw |-> raw, json |-> json, message |-> message, code |-> code]

Bodies ==
    { Doc("", "invalid", Absent, Absent),
      Doc("Bad Gateway", "invalid", Absent, Absent),
      Doc("null", "null", Absent, Absent),
      Doc("[1]", "array", Absent, Absent),
      Doc("{}", "object", Absent, Absent),
      Doc("{\"message\":\"not found\",\"code\":\"E404\"}", "object", "not found", "E404"),
      Doc("{\"message\":\"not found\"}", "object", "not found", Absent),
      Doc("{\"message\":\"\",\"code\":\"E404\"}", "object", "", "E404"),
      Doc("{\"code\":\"E404\"}", "object", Absent, "E404"),
      Doc("{\"message\":\"not found\",\"code\":404}", "object", "not found", NumberValue) }

\* A Go struct with the string fields Message and Code at its zero value.
ZeroStruct == [Message |-> "", Code |-> ""]

(***************************************************************************)
(* json.Unmarshal(data, &v) for a struct v with the string fields          *)
(* `json:"message"` and `json:"code"` (src/rest/client.go:144-149, 171):   *)
(* a syntax error leaves v alone; null is a no-op; a value of the wrong    *)
(* JSON type is skipped and reported after the other fields are set.       *)
(***************************************************************************)
Unmarshal(data, v) ==
    IF data.json = "invalid" THEN [failed |-> TRUE, v |-> v]
    ELSE IF data.json = "null" THEN [failed |-> FALSE, v |-> v]
    ELSE IF data.json = "array" THEN [failed |-> TRUE, v |-> v]
    ELSE [failed |-> data.code = NumberValue,
          v |-> [Message |-> IF data.message = Absent THEN v.Message ELSE data.message,
                 Code |-> IF data.code \in {Absent, NumberValue} THEN v.Code ELSE data.code]]

(***************************************************************************)
(* The state of one Request call.                                          *)
(***************************************************************************)
VARIABLES
    c,            \* the Client: [Retries, BaseURL, Headers]
    in,           \* the call's arguments: [body, requestValid, path]
    req,          \* the request built by http.NewRequestWithContext: [url, Header]
    sent,         \* the requests handed to HTTPClient.Do, in order
    ctxErr,       \* ctx.Err(): "none" until the caller's context is done
    pc,           \* the position of the call
    attempt,      \* the loop variable of the attempt loop
    sends,        \* the number of HTTPClient.Do calls made
    waits,        \* the backoff intervals waited for, in milliseconds, in order
    err,          \* the error of the last HTTPClient.Do call
    resp,         \* the response of the last HTTPClient.Do call
    response,     \* the caller's target: [isNil, v]
    statusChecks, \* how many times resp.StatusCode was evaluated (client.go:142)
    failures,     \* how many Do calls failed with a non-cancellation error
    lastFailure,  \* the text of the most recent of these failures
    result,       \* what Request returned, once pc = "done"
    \* NewClient
    client,       \* the Client under construction (c of NewClient)
    opts,         \* the options NewClient was called with, in order
    applied,      \* how many of them have been applied
    npc,          \* the position of the NewClient call
    out,          \* what NewClient returned, once npc = "returned"
    \* api.WriteError
    w,            \* the http.ResponseWriter: [wroteHeader, Code, Header, Body]
    werr,         \* the err argument of WriteError
    wcall,        \* the locals of WriteError and WriteJSON
    wpc,          \* the position of the WriteError call
    \* Registry
    optionNames,  \* the package-level map optionNames, as the set of its keys
    gpc,          \* what each goroutine is doing: [op, at]
    fatal,        \* the runtime has aborted the process (concurrent map access)
    \* Concurrent
    shared,       \* the one Client the callers share: [BaseURL, Headers, Retries, Timeout]
    constructed,  \* that Client as NewClient returned it
    calls,       \* each caller's Request call: [method, pc, req, attempt, log, result]
    \* Validator
    Errors,       \* Validator.Errors: the message recorded for each field
    vlog,        \* the calls made on the Validator, in order: [field, failed, message]
    \* Router
    routers,      \* the *Router values: [mux, options], mux naming the chi.Mux behind the embedded chi.Router
    muxes,        \* the chi.Mux objects: [middlewares, routes, built]
    served,       \* the last request served: [router, path, Code, Body, via]
    rpanic,      \* a call has panicked
    \* Format
    fcall,       \* one FormatFloatWithCommas call: [f, pc, parts, reversed, i, reversedWithCommas, result]
    \* BusinessDays
    bcall        \* one AddBusinessDays call: [t, n, days, result, pc], times as day numbers

requestVars ==
    << c, in, req, sent, ctxErr, pc, attempt, sends, waits, err, resp, response,
       statusChecks, failures, lastFailure, result >>

newClientVars == << client, opts, applied, npc, out >>

writeErrorVars == << w, werr, wcall, wpc >>

registryVars == << optionNames, gpc, fatal >>

concurrentVars == << shared, constructed, calls >>

validatorVars == << Errors, vlog >>

routerVars == << routers, muxes, served, rpanic >>

formatVars == << fcall >>

businessDaysVars == << bcall >>

vars == << requestVars, newClientVars, writeErrorVars, registryVars, concurrentVars, validatorVars, routerVars, formatVars, businessDaysVars >>

otherThanRequest == << newClientVars, writeErrorVars, registryVars, concurrentVars, validatorVars, routerVars, formatVars, businessDaysVars >>
otherThanNewClient == << requestVars, writeErrorVars, registryVars, concurrentVars, validatorVars, routerVars, formatVars, businessDaysVars >>
otherThanWriteError == << requestVars, newClientVars, registryVars, concurrentVars, validatorVars, routerVars, formatVars, businessDaysVars >>
otherThanRegistry == << requestVars, newClientVars, writeErrorVars, concurrentVars, validatorVars, routerVars, formatVars, businessDaysVars >>
otherThanConcurrent == << requestVars, newClientVars, writeErrorVars, registryVars, validatorVars, routerVars, formatVars, businessDaysVars >>
otherThanValidator == << requestVars, newClientVars, writeErrorVars, registryVars, concurrentVars, routerVars, formatVars, businessDaysVars >>
otherThanRouter == << requestVars, newClientVars, writeErrorVars, registryVars, concurrentVars, validatorVars, formatVars, businessDaysVars >>
otherThanFormat == << requestVars, newClientVars, writeErrorVars, registryVars, concurrentVars, validatorVars, routerVars, businessDaysVars >>
otherThanBusinessDays == << requestVars, newClientVars, writeErrorVars, registryVars, concurrentVars, validatorVars, routerVars, formatVars >>

NoErr == [text |-> "", is |-> "none", isNil |-> TRUE]
NoResp == [isNil |-> TRUE, StatusCode |-> 0, Body |-> Doc("", "invalid", Absent, Absent), readFails |-> FALSE]

\* The texts of the transport failures that are no cancellation.
ErrTexts == {"connection refused", "no such host"}
\* Request bodies: none, one that json.Marshal encodes, one that it rejects.
RequestBodies == {"nil", "value", "unmarshalable"}
\* The context errors.
CtxErrs == {"context.Canceled", "context.DeadlineExceeded"}

\* What one HTTPClient.Do call may return while the context's state is ctxErr:
\* a response, a transport failure, or (only once the context is done) the
\* context's error wrapped by the transport.
DoResponses ==
    [isNil : {FALSE}, StatusCode : Statuses, Body : Bodies, readFails : BOOLEAN]
DoErrors(ctx) ==
    [text : ErrTexts, is : {"none"}, isNil : {FALSE}]
        \cup (IF ctx = "none" THEN {}
              ELSE {[text |-> ctx, is |-> ctx, isNil |-> FALSE]})

\* client.go:35: the Retries of a Client made by NewClient
DefaultRetries == 3

\* Client.BaseURL: not set, or set by WithBaseURL.
BaseURLs == {"", "http://x"}
\* The path argument: relative to the base URL, or a full URL.
Paths == {"/users", "http://y/users"}

\* A header map: a function from the names it holds to their values.
NoHeaders == [k \in {} |-> ""]
\* Client.Headers: nothing configured, a custom header, and a custom header with a
\* Content-Type written in lower case.
HeaderMaps ==
    { NoHeaders,
      [k \in {"X-Api-Key"} |-> "secret"],
      [k \in {"X-Api-Key", "content-type"} |->
          IF k = "X-Api-Key" THEN "secret" ELSE "text/plain"] }

\* textproto.CanonicalMIMEHeaderKey, which http.Header.Set applies to the name:
\* the first letter and every letter after a hyphen in upper case, the rest in lower.
CanonicalMIMEHeaderKey(k) ==
    IF k \in {"content-type", "Content-type", "CONTENT-TYPE"} THEN "Content-Type"
    ELSE IF k \in {"accept", "ACCEPT"} THEN "Accept"
    ELSE IF k \in {"x-api-key", "X-API-KEY"} THEN "X-Api-Key"
    ELSE k

\* http.Header.Set(key, value) on the header map h
HeaderSet(h, key, value) ==
    [k \in DOMAIN h \cup {CanonicalMIMEHeaderKey(key)} |->
        IF k = CanonicalMIMEHeaderKey(key) THEN value ELSE h[k]]

\* client.go:94-96: for k, v := range c.Headers { req.Header.Set(k, v) }
\* (the names of one map differ after canonicalisation, so the order is immaterial)
RECURSIVE SetAll(_, _, _)
SetAll(h, headers, names) ==
    IF names = {} THEN h
    ELSE LET k == CHOOSE n \in names : TRUE
         IN  SetAll(HeaderSet(h, k, headers[k]), headers, names \ {k})

\* client.go:70-73: the URL of the request
RequestURL(baseURL, path) ==
    IF baseURL # "" THEN baseURL \o path ELSE path

\* The two defaults are set after the configured headers.
RequestHeader_DefaultsLast(headers) ==
    HeaderSet(HeaderSet(SetAll(NoHeaders, headers, DOMAIN headers),
                        "Content-Type", "application/json"),
              "Accept", "application/json")

\* client.go:89-96: the headers of the request
RequestHeader(headers) ==
    SetAll(HeaderSet(HeaderSet(NoHeaders, "Content-Type", "application/json"),
                     "Accept", "application/json"),
           headers, DOMAIN headers)

NoRequest == [url |-> "", Header |-> NoHeaders]

\* NewClient is not being called: its variables rest.
NoClient ==
    [BaseURL |-> "", HTTPClient |-> [ptr |-> "nil", Timeout |-> 0], Headers |-> NoHeaders,
     Retries |-> 0, Timeout |-> 0, Logger |-> "nil", ServiceName |-> ""]
NoOut == [isNil |-> TRUE, client |-> NoClient, err |-> "nil"]
NewClientIdle ==
    /\ client = NoClient
    /\ opts = << >>
    /\ applied = 0
    /\ npc = "idle"
    /\ out = NoOut

\* WriteError is not being called: its variables rest.
NoWriter == [wroteHeader |-> FALSE, Code |-> 0, Header |-> NoHeaders, Body |-> << >>]
NoAPIError == [StatusCode |-> 0, Message |-> ""]
NoJSON == [error |-> [status_code |-> 0, message |-> ""]]
NoWriteCall == [apiErr |-> NoAPIError, statusCode |-> 0, js |-> NoJSON]
WriteErrorIdle ==
    /\ w = NoWriter
    /\ werr = [type |-> "nil", StatusCode |-> 0, Message |-> ""]
    /\ wcall = NoWriteCall
    /\ wpc = "idle"

\* No goroutine makes or names options: the variables of the registry rest.
RegistryIdle ==
    /\ optionNames = {}
    /\ gpc = << >>
    /\ fatal = FALSE

\* No caller shares a Client: the variables of the concurrent calls rest.
ConcurrentIdle ==
    /\ shared = << >>
    /\ constructed = << >>
    /\ calls = << >>

\* No Validator is in use: its variables rest.
ValidatorIdle ==
    /\ Errors = << >>
    /\ vlog = << >>

\* No router exists: the variables of package router rest.
RouterIdle ==
    /\ routers = << >>
    /\ muxes = << >>
    /\ served = << >>
    /\ rpanic = FALSE

\* FormatFloatWithCommas is not being called: its variable rests.
FormatIdle == fcall = << >>

\* AddBusinessDays is not being called: its variable rests.
BusinessDaysIdle == bcall = << >>

Init ==
    /\ c \in [Retries : 0..MaxRetries, BaseURL : BaseURLs, Headers : HeaderMaps]
    /\ in \in [body : RequestBodies, requestValid : BOOLEAN, path : Paths]
    /\ req = NoRequest
    /\ sent = << >>
    /\ ctxErr = "none"
    /\ pc = "start"
    /\ attempt = 0
    /\ sends = 0
    /\ waits = << >>
    /\ err = NoErr
    /\ resp = NoResp
    /\ response \in [isNil : BOOLEAN, v : {ZeroStruct}]
    /\ statusChecks = 0
    /\ failures = 0
    /\ lastFailure = ""
    /\ result = NilError
    /\ NewClientIdle
    /\ WriteErrorIdle
    /\ RegistryIdle
    /\ ConcurrentIdle
    /\ ValidatorIdle
    /\ RouterIdle
    /\ FormatIdle
    /\ BusinessDaysIdle

\* The caller's context is cancelled or its deadline expires (any time before the return).
Cancel ==
    /\ pc # "done"
    /\ ctxErr = "none"
    /\ \E e \in CtxErrs : ctxErr' = e
    /\ UNCHANGED << otherThanRequest, c, in, req, sent, pc, attempt, sends, waits, err, resp, response,
                    statusChecks, failures, lastFailure, result >>

\* return e
Return(e) ==
    /\ pc' = "done"
    /\ result' = e

\* The error of json.Marshal is dropped and the request is sent without a body.
Prepare_IgnoresMarshalError ==
    /\ pc = "start"
    /\ IF ~in.requestValid
         THEN Return(WrapError("failed to create request")) /\ UNCHANGED req
         ELSE /\ req' = [url |-> RequestURL(c.BaseURL, in.path),
                         Header |-> RequestHeader(c.Headers)]
              /\ pc' = "loop"
              /\ UNCHANGED result
    /\ attempt' = 0
    /\ UNCHANGED << otherThanRequest, c, in, sent, ctxErr, sends, waits, err, resp, response,
                    statusChecks, failures, lastFailure >>

(***************************************************************************)
(* client.go:70-96: the URL, the encoded body, the request, its headers.   *)
(***************************************************************************)
Prepare ==
    /\ pc = "start"
    /\ IF in.body = "unmarshalable"
         THEN Return(WrapError("failed to marshal request body")) /\ UNCHANGED req
         ELSE IF ~in.requestValid
           THEN Return(WrapError("failed to create request")) /\ UNCHANGED req
           ELSE /\ req' = [url |-> RequestURL(c.BaseURL, in.path),
                           Header |-> RequestHeader(c.Headers)]
                /\ pc' = "loop"
                /\ UNCHANGED result
    /\ attempt' = 0
    /\ UNCHANGED << otherThanRequest, c, in, sent, ctxErr, sends, waits, err, resp, response,
                    statusChecks, failures, lastFailure >>

(***************************************************************************)
(* client.go:101-102: the loop condition holds and HTTPClient.Do is called.*)
(***************************************************************************)
\* The loop condition with the bound excluded.
LoopCondition_Exclusive(n, retries) == n < retries

\* client.go:101: attempt <= c.Retries
LoopCondition(n, retries) == n <= retries

DoStart ==
    /\ pc = "loop"
    /\ LoopCondition(attempt, c.Retries)
    /\ sends' = sends + 1
    /\ sent' = Append(sent, req)
    /\ pc' = "inflight"
    /\ UNCHANGED << otherThanRequest, c, in, req, ctxErr, attempt, waits, err, resp, response,
                    statusChecks, failures, lastFailure, result >>

\* The backoff the comment of client.go:113 announces: doubling.
BackoffTime_Exponential(n) == (2 ^ n) * 100

\* client.go:114: time.Duration(attempt+1) * 100 * time.Millisecond, in milliseconds
BackoffTime(n) == (n + 1) * 100

(***************************************************************************)
(* client.go:102-122: HTTPClient.Do returns.  A response ends the loop; a  *)
(* cancellation is returned; any other failure is followed by the backoff  *)
(* wait when attempts remain, and by the next loop test otherwise.         *)
(***************************************************************************)
\* A response with a 5xx status is treated as a failed attempt while attempts remain.
DoReturnsResponse_RetryOn5xx ==
    /\ pc = "inflight"
    /\ \E r \in DoResponses :
         /\ resp' = r
         /\ err' = NoErr
         /\ IF r.StatusCode >= 500 /\ attempt < c.Retries
              THEN /\ attempt' = attempt + 1
                   /\ pc' = "loop"
              ELSE /\ pc' = "read"
                   /\ UNCHANGED attempt
    /\ UNCHANGED << otherThanRequest, c, in, req, sent, ctxErr, sends, waits, response,
                    statusChecks, failures, lastFailure, result >>

DoReturnsResponse ==
    /\ pc = "inflight"
    /\ \E r \in DoResponses :
         /\ resp' = r
         /\ err' = NoErr
    /\ pc' = "read"
    /\ UNCHANGED << otherThanRequest, c, in, req, sent, ctxErr, attempt, sends, waits, response,
                    statusChecks, failures, lastFailure, result >>

\* Only context.Canceled is recognised.
IsCancellation_CanceledOnly(e) == e.is = "context.Canceled"

\* errors.Is(err, context.Canceled) || errors.Is(err, context.DeadlineExceeded)
IsCancellation(e) == e.is \in CtxErrs

\* A failed attempt is followed by the next one at once, without a wait.
DoReturnsError_NoWait ==
    /\ pc = "inflight"
    /\ \E e \in DoErrors(ctxErr) :
         /\ err' = e
         /\ resp' = NoResp
         /\ IF IsCancellation(e)
              THEN /\ Return(TransportError(e))
                   /\ UNCHANGED << attempt, failures, lastFailure >>
              ELSE /\ failures' = failures + 1
                   /\ lastFailure' = e.text
                   /\ UNCHANGED result
                   /\ attempt' = attempt + 1
                   /\ pc' = "loop"
    /\ UNCHANGED << otherThanRequest, c, in, req, sent, ctxErr, sends, waits, response,
                    statusChecks >>

\* The backoff wait is also made after the last attempt.
DoReturnsError_WaitsAfterLast ==
    /\ pc = "inflight"
    /\ \E e \in DoErrors(ctxErr) :
         /\ err' = e
         /\ resp' = NoResp
         /\ IF IsCancellation(e)
              THEN /\ Return(TransportError(e))
                   /\ UNCHANGED << attempt, waits, failures, lastFailure >>
              ELSE /\ failures' = failures + 1
                   /\ lastFailure' = e.text
                   /\ UNCHANGED result
                   /\ waits' = Append(waits, BackoffTime(attempt))
                   /\ pc' = "backoff"
                   /\ UNCHANGED attempt
    /\ UNCHANGED << otherThanRequest, c, in, req, sent, ctxErr, sends, response, statusChecks >>

DoReturnsError ==
    /\ pc = "inflight"
    /\ \E e \in DoErrors(ctxErr) :
         /\ err' = e
         /\ resp' = NoResp
         /\ IF IsCancellation(e)
              THEN /\ Return(TransportError(e))
                   /\ UNCHANGED << attempt, waits, failures, lastFailure >>
              ELSE /\ failures' = failures + 1
                   /\ lastFailure' = e.text
                   /\ UNCHANGED result
                   /\ IF attempt < c.Retries
                        THEN /\ waits' = Append(waits, BackoffTime(attempt))
                             /\ pc' = "backoff"
                             /\ UNCHANGED attempt
                        ELSE /\ attempt' = attempt + 1
                             /\ pc' = "loop"
                             /\ UNCHANGED waits
    /\ UNCHANGED << otherThanRequest, c, in, req, sent, ctxErr, sends, response, statusChecks >>

(***************************************************************************)
(* client.go:115-120: the select of the backoff wait.  The timer of        *)
(* time.After is armed as the select is entered, so a context that is done *)
(* by then, or becomes done before the timer fires, wakes the select.      *)
(***************************************************************************)
\* A wait that does not watch the context (time.Sleep).
SelectCase_TimerOnly(ctx) == "time.After"

SelectCase(ctx) == IF ctx # "none" THEN "ctx.Done" ELSE "time.After"

BackoffElapsed ==
    /\ pc = "backoff"
    /\ SelectCase(ctxErr) = "time.After"
    /\ attempt' = attempt + 1
    /\ pc' = "loop"
    /\ UNCHANGED << otherThanRequest, c, in, req, sent, ctxErr, sends, waits, err, resp, response,
                    statusChecks, failures, lastFailure, result >>

BackoffCancelled ==
    /\ pc = "backoff"
    /\ SelectCase(ctxErr) = "ctx.Done"
    /\ Return(CtxError(ctxErr))
    /\ UNCHANGED << otherThanRequest, c, in, req, sent, ctxErr, attempt, sends, waits, err, resp, response,
                    statusChecks, failures, lastFailure >>

(***************************************************************************)
(* client.go:101, 124-129: the loop condition fails after the last attempt *)
(* and the last transport error is classified.                             *)
(***************************************************************************)
\* The last transport error is wrapped with fmt.Errorf instead of classified.
AttemptsExhausted_Wrapped ==
    /\ pc = "loop"
    /\ ~LoopCondition(attempt, c.Retries)
    /\ Return(WrapError("request failed"))
    /\ UNCHANGED << otherThanRequest, c, in, req, sent, ctxErr, attempt, sends, waits, err, resp, response,
                    statusChecks, failures, lastFailure >>

AttemptsExhausted ==
    /\ pc = "loop"
    /\ ~LoopCondition(attempt, c.Retries)
    /\ IF ~err.isNil
         THEN Return(ClientError(ErrConnectionFailed, err.text, ""))
         ELSE pc' = "read" /\ UNCHANGED result
    /\ UNCHANGED << otherThanRequest, c, in, req, sent, ctxErr, attempt, sends, waits, err, resp, response,
                    statusChecks, failures, lastFailure >>

(***************************************************************************)
(* client.go:142-163: the error of a non-2xx response.  The body is parsed *)
(* as the envelope {message, code}; without a message the raw body and the *)
(* decimal status code are used.                                           *)
(***************************************************************************)
\* The success range with its lower edge excluded.
IsSuccessStatus_Excludes200(statusCode) == ~(statusCode <= 200 \/ statusCode >= 300)

IsSuccessStatus(statusCode) == ~(statusCode < 200 \/ statusCode >= 300)

\* The envelope is used whenever the body parses, also without a message.
ErrorFromResponse_NoMessageCheck(statusCode, respBody) ==
    LET errResp == Unmarshal(respBody, ZeroStruct)
    IN  IF ~errResp.failed
          THEN ClientError(getErrorByStatusCode(statusCode),
                           errResp.v.Message, errResp.v.Code)
          ELSE ClientError(getErrorByStatusCode(statusCode),
                           respBody.raw, ToString(statusCode))

ErrorFromResponse(statusCode, respBody) ==
    LET errResp == Unmarshal(respBody, ZeroStruct)
    IN  IF ~errResp.failed /\ errResp.v.Message # ""
          THEN ClientError(getErrorByStatusCode(statusCode),
                           errResp.v.Message, errResp.v.Code)
          ELSE ClientError(getErrorByStatusCode(statusCode),
                           respBody.raw, ToString(statusCode))

(***************************************************************************)
(* client.go:165-178: the body of a 2xx response is dropped for a nil      *)
(* target and decoded into any other; DecodeResponse is the pair of the    *)
(* error returned and the target afterwards.                               *)
(***************************************************************************)
\* The decode error is dropped.
DecodeResponse_IgnoresError(respBody, target) ==
    IF target.isNil
      THEN [error |-> NilError, target |-> target]
      ELSE [error |-> NilError,
            target |-> [target EXCEPT !.v = Unmarshal(respBody, target.v).v]]

DecodeResponse(respBody, target) ==
    IF target.isNil
      THEN [error |-> NilError, target |-> target]
      ELSE LET d == Unmarshal(respBody, target.v)
           IN  [error |-> IF d.failed
                            THEN ClientError(ErrInvalidRequest,
                                             "failed to parse response: json error", "")
                            ELSE NilError,
                target |-> [target EXCEPT !.v = d.v]]

(***************************************************************************)
(* client.go:130-179: the body is read in full, then the status is         *)
(* evaluated, then the body is decoded.                                    *)
(***************************************************************************)
HandleResponse ==
    /\ pc = "read"
    /\ IF resp.readFails
         THEN /\ Return(ClientError(ErrConnectionFailed,
                                    "failed to read response body: unexpected EOF", ""))
              /\ UNCHANGED << response, statusChecks >>
         ELSE /\ statusChecks' = statusChecks + 1
              /\ IF ~IsSuccessStatus(resp.StatusCode)
                   THEN /\ Return(ErrorFromResponse(resp.StatusCode, resp.Body))
                        /\ UNCHANGED response
                   ELSE LET d == DecodeResponse(resp.Body, response)
                        IN  /\ Return(d.error)
                            /\ response' = d.target
    /\ UNCHANGED << otherThanRequest, c, in, req, sent, ctxErr, attempt, sends, waits, err, resp,
                    failures, lastFailure >>

Next ==
    \/ Cancel
    \/ Prepare
    \/ DoStart
    \/ DoReturnsResponse
    \/ DoReturnsError
    \/ BackoffElapsed
    \/ BackoffCancelled
    \/ AttemptsExhausted
    \/ HandleResponse

Spec == Init /\ [][Next]_vars

(***************************************************************************)
(* Properties of Client.Request.                                           *)
(***************************************************************************)
\* The call got as far as the attempt loop: the body was encoded and the request built.
Prepared == in.body # "unmarshalable" /\ in.requestValid

\* The call returned a response whose body was read in full.
Buffered == pc = "done" /\ ~resp.isNil /\ ~resp.readFails

\* A body that json.Unmarshal decodes into a struct of string fields without error.
Decodable(b) == b.json \in {"null", "object"} /\ b.code # NumberValue

\* C1: with Retries = R and a context that is never cancelled, when every
\* transport send fails with a non-cancellation error Request has made
\* exactly R+1 sends when it returns, and returns a ClientError of kind
\* ErrConnectionFailed whose message is the text of the last transport error.
Thm_C1 ==
    (pc = "done" /\ Prepared /\ ctxErr = "none" /\ failures = sends)
        => /\ sends = c.Retries + 1
           /\ result = ClientError(ErrConnectionFailed, lastFailure, "")

Wit_C1 ==
    /\ pc = "done" /\ ctxErr = "none" /\ c.Retries = 2
    /\ failures = 3 /\ sends = 3
    /\ result = ClientError(ErrConnectionFailed, "no such host", "")

\* C2 as stated: with a context that is never cancelled, when the first
\* N-1 = Retries sends fail and the N-th returns a 2xx response (read in
\* full), Request returns no error and exactly N sends were made.
Orig_C2 ==
    (Buffered /\ ctxErr = "none" /\ failures = c.Retries
       /\ resp.StatusCode \in 200..299)
        => /\ result = NilError
           /\ sends = c.Retries + 1

\* C2 as amended: with a context that is never cancelled, a call that has
\* seen N-1 = Retries failed sends does not return before the N-th send;
\* when the N-th send returns a 2xx response read in full, exactly N sends
\* were made, and Request returns no error exactly when no target was
\* supplied or the body decodes into the target.
Thm_C2 ==
    (pc = "done" /\ Prepared /\ ctxErr = "none" /\ failures = c.Retries)
        => /\ sends = c.Retries + 1
           /\ (Buffered /\ resp.StatusCode \in 200..299)
                => (result = NilError <=> (response.isNil \/ Decodable(resp.Body)))

Wit_C2 ==
    /\ Buffered /\ ctxErr = "none" /\ c.Retries = 2 /\ failures = 2 /\ sends = 3
    /\ resp.StatusCode = 200 /\ ~response.isNil /\ resp.Body.message = "not found"
    /\ result = NilError

Thm_C4 ==
    [][ /\ (pc = "inflight" /\ err'.is \in CtxErrs)
             => /\ pc' = "done"
                /\ result' = TransportError(err')
                /\ sends' = sends
                /\ waits' = waits
        /\ pc = "done" => (pc' = "done" /\ sends' = sends /\ waits' = waits)
      ]_vars

Wit_C4 ==
    /\ pc = "done" /\ c.Retries = 3 /\ attempt = 1 /\ sends = 2
    /\ result.type = "url.Error" /\ result.kind = "context.DeadlineExceeded"

\* C5: when the caller's context is done while Request is in a backoff
\* wait, the wait ends with Request returning ctx.Err(), not the preceding
\* transport error and not a ClientError, and no further send is made.
Thm_C5 ==
    [][ /\ (pc = "backoff" /\ ctxErr # "none")
             => /\ pc' = "done"
                /\ result' = CtxError(ctxErr)
                /\ sends' = sends
        /\ (pc = "done" /\ result.type = "context") => sends' = sends
      ]_vars

Wit_C5 ==
    /\ pc = "done" /\ c.Retries = 3 /\ sends = 2 /\ Len(waits) = 2
    /\ err.text = "connection refused"
    /\ result = CtxError("context.Canceled")

\* The fields of the target v hold what the body b carries for them.
PopulatedFrom(b, v) ==
    /\ b.message # Absent => v.Message = b.message
    /\ b.code \notin {Absent, NumberValue} => v.Code = b.code

\* C6 as stated: for every status in [200,300) and every body read with it,
\* Request returns no error and a non-nil target is populated from the body.
Orig_C6 ==
    (Buffered /\ resp.StatusCode \in 200..299)
        => /\ result = NilError
           /\ ~response.isNil => PopulatedFrom(resp.Body, response.v)

\* C6 as amended: for every status in [200,300) whose body is read in full,
\* Request returns no error when the target is nil or the body decodes into
\* it, a non-nil target then being populated from the body; a body that
\* does not decode into a non-nil target (an empty body, text that is not
\* JSON, a value of the wrong JSON type) yields a ClientError of kind
\* ErrInvalidRequest.
Thm_C6 ==
    (Buffered /\ resp.StatusCode \in 200..299)
        => IF response.isNil \/ Decodable(resp.Body)
             THEN /\ result = NilError
                  /\ ~response.isNil => PopulatedFrom(resp.Body, response.v)
             ELSE /\ result.type = "ClientError"
                  /\ result.kind = ErrInvalidRequest

Wit_C6 ==
    /\ Buffered /\ resp.StatusCode = 200 /\ ~response.isNil
    /\ resp.Body.message = "not found" /\ resp.Body.code = "E404"
    /\ result = NilError
    /\ response.v = [Message |-> "not found", Code |-> "E404"]

\* C7: for a response with a non-2xx status (its body read), the kind of
\* the ClientError returned is decided by the status alone, first match:
\* 401 Unauthorized, 404 ResourceNotFound, 422 UnprocessableEntity, any
\* other 400..499 InvalidRequest, 500 and above ServerError (below 400 the
\* unexpected-status error of that status); the body never changes it.
Thm_C7 ==
    (Buffered /\ resp.StatusCode \notin 200..299)
        => /\ result.type = "ClientError"
           /\ resp.StatusCode = 401 => result.kind = ErrUnauthorized
           /\ resp.StatusCode = 404 => result.kind = ErrResourceNotFound
           /\ resp.StatusCode = 422 => result.kind = ErrUnprocessableEntity
           /\ resp.StatusCode \in (400..499) \ {401, 404, 422}
                => result.kind = ErrInvalidRequest
           /\ resp.StatusCode >= 500 => result.kind = ErrServerError
           /\ resp.StatusCode < 400
                => result.kind = "unexpected status: " \o ToString(resp.StatusCode)

Wit_C7 ==
    /\ Buffered /\ resp.StatusCode = 422 /\ resp.Body.json = "invalid"
    /\ result.kind = ErrUnprocessableEntity

\* C8: for a non-2xx response (its body read): when the body parses as the
\* envelope and its message is not empty, the ClientError carries that
\* message and that code (possibly empty); in every other case it carries
\* the raw body text as message and the decimal status code as code.
Thm_C8 ==
    (Buffered /\ resp.StatusCode \notin 200..299)
        => IF Decodable(resp.Body) /\ resp.Body.message \notin {Absent, ""}
             THEN /\ result.message = resp.Body.message
                  /\ result.code = (IF resp.Body.code = Absent THEN "" ELSE resp.Body.code)
             ELSE /\ result.message = resp.Body.raw
                  /\ result.code = ToString(resp.StatusCode)

Wit_C8 ==
    /\ Buffered /\ resp.StatusCode = 404
    /\ result = ClientError(ErrResourceNotFound, "not found", "E404")

\* C9: when the body of a 2xx response (read in full) cannot be decoded
\* into a non-nil target, Request returns a ClientError of kind
\* ErrInvalidRequest, never nil; with a nil target the body is dropped and
\* Request returns nil, also for a malformed body.
Thm_C9 ==
    (Buffered /\ resp.StatusCode \in 200..299)
        => /\ (~response.isNil /\ ~Decodable(resp.Body))
                => (result.type = "ClientError" /\ result.kind = ErrInvalidRequest)
           /\ response.isNil => result = NilError

Wit_C9 ==
    /\ Buffered /\ resp.StatusCode = 204 /\ ~response.isNil
    /\ resp.Body.raw = ""
    /\ result.type = "ClientError" /\ result.kind = ErrInvalidRequest

AbsoluteURLs == {"http://y/users"}

\* C11: a path that is a full absolute URL is the request URL verbatim,
\* whatever BaseURL is; any other path gives BaseURL followed by the path.
Claim_C11 ==
    (Prepared /\ pc # "start")
        => req.url = (IF in.path \in AbsoluteURLs THEN in.path
                      ELSE c.BaseURL \o in.path)

\* C12: every send, the first and every retry, carries Content-Type and
\* Accept application/json overlaid by every header configured on the
\* Client, a configured header winning over a default of the same name.
Thm_C12 ==
    /\ Len(sent) = sends
    /\ \A i \in 1..Len(sent) :
         LET h == sent[i].Header
             configured == {CanonicalMIMEHeaderKey(k) : k \in DOMAIN c.Headers}
         IN  /\ DOMAIN h = {"Content-Type", "Accept"} \cup configured
             /\ \A k \in DOMAIN c.Headers : h[CanonicalMIMEHeaderKey(k)] = c.Headers[k]
             /\ "Content-Type" \notin configured => h["Content-Type"] = "application/json"
             /\ "Accept" \notin configured => h["Accept"] = "application/json"

Wit_C12 ==
    /\ Len(sent) = 3 /\ failures = 2
    /\ sent[3].Header["Content-Type"] = "text/plain"
    /\ sent[3].Header["X-Api-Key"] = "secret"
    /\ sent[3].Header["Accept"] = "application/json"

\* C15: Unwrap of a ClientError is its kind, so errors.Is of the error
\* Request returns holds for the sentinel that is its kind and for no
\* other sentinel.
Thm_C15 ==
    (pc = "done" /\ result.type = "ClientError")
        => \A K \in Sentinels : ErrorsIs(result, ErrValue(K)) <=> (K = result.kind)

Wit_C15 ==
    /\ pc = "done" /\ result.type = "ClientError"
    /\ result.kind = ErrResourceNotFound /\ result.message = "not found"
    /\ ErrorsIs(result, ErrValue(ErrResourceNotFound))
    /\ ~ErrorsIs(result, ErrValue(ErrInvalidRequest))

\* C16: a body that cannot be serialized makes Request return the error at
\* once: no send is made, no retry and no backoff wait happens.
Thm_C16 ==
    in.body = "unmarshalable"
        => /\ pc \in {"start", "done"}
           /\ sends = 0 /\ sent = << >> /\ waits = << >> /\ attempt = 0
           /\ pc = "done" => result = WrapError("failed to marshal request body")

Wit_C16 ==
    /\ pc = "done" /\ in.body = "unmarshalable" /\ c.Retries = 3
    /\ result.type = "fmt.wrapError" /\ sends = 0

\* C17: backoff waits happen only between attempts: a wait follows a failed
\* attempt with attempts remaining, there are never more waits than
\* Retries, none after the final attempt, and with Retries = 0 exactly one
\* attempt is made and no wait.
Thm_C17 ==
    [][ /\ Len(waits') <= c'.Retries
        /\ Len(waits') <= sends'
        /\ sends' = c'.Retries + 1 => Len(waits') < sends'
        /\ waits' # waits => (pc = "inflight" /\ pc' = "backoff" /\ sends < c.Retries + 1)
        /\ (pc' = "done" /\ c'.Retries = 0 /\ in'.body # "unmarshalable" /\ in'.requestValid)
             => (sends' = 1 /\ waits' = << >>)
      ]_vars

Wit_C17 ==
    /\ pc = "done" /\ c.Retries = 0 /\ sends = 1 /\ failures = 1 /\ waits = << >>
    /\ result.kind = ErrConnectionFailed

Claim_C19 ==
    (pc = "done" /\ c.Retries = DefaultRetries /\ in.body = "nil" /\ Prepared
       /\ ctxErr = "none" /\ failures = 0 /\ Buffered
       /\ sends = 1 /\ resp.StatusCode = 500 /\ resp.Body.raw = "")
        => FALSE

(***************************************************************************)
(* NewClient, src/rest/client.go:28-66, and the options of                 *)
(* src/rest/options.go:53-102.                                             *)
(***************************************************************************)

\* The longest option list a call is made with.
MaxOptions == 3

\* client.go:32 and client.go:36: 30 * time.Second, in seconds
DefaultTimeout == 30

\* No Request call is in progress: its variables rest.
RequestIdle ==
    /\ c = [Retries |-> DefaultRetries, BaseURL |-> "", Headers |-> NoHeaders]
    /\ in = [body |-> "nil", requestValid |-> TRUE, path |-> "/users"]
    /\ req = NoRequest
    /\ sent = << >>
    /\ ctxErr = "none"
    /\ pc = "idle"
    /\ attempt = 0
    /\ sends = 0
    /\ waits = << >>
    /\ err = NoErr
    /\ resp = NoResp
    /\ response = [isNil |-> TRUE, v |-> ZeroStruct]
    /\ statusChecks = 0
    /\ failures = 0
    /\ lastFailure = ""
    /\ result = NilError

\* client.go:30-37: the Client before the options are applied
DefaultClient ==
    [BaseURL |-> "", HTTPClient |-> [ptr |-> "default", Timeout |-> DefaultTimeout],
     Headers |-> NoHeaders, Retries |-> DefaultRetries, Timeout |-> DefaultTimeout,
     Logger |-> "nil", ServiceName |-> ""]

\* An option: the With... function that made it and its argument.
Option(name, s, n, h) == [name |-> name, s |-> s, n |-> n, h |-> h]

\* The header maps given to WithHeaders.
OptionHeaderMaps ==
    { [k \in {"content-type"} |-> "text/xml"],
      [k \in {"X-Api-Key", "content-type"} |->
          IF k = "X-Api-Key" THEN "key-3" ELSE "text/csv"] }

ClientOptions ==
    {Option("WithBaseURL", u, 0, NoHeaders) : u \in {"http://x", "http://z"}}
        \cup {Option("WithHTTPClient", p, 10, NoHeaders) : p \in {"nil", "H1"}}
        \cup {Option("WithHeader", "X-Api-Key", 0, [k \in {"X-Api-Key"} |-> v]) :
                  v \in {"key-1", "key-2"}}
        \cup {Option("WithHeader", "content-type", 0, [k \in {"content-type"} |-> "text/plain"])}
        \cup {Option("WithHeaders", "", 0, h) : h \in OptionHeaderMaps}
        \cup {Option("WithTimeout", "", t, NoHeaders) : t \in {5, 60}}
        \cup {Option("WithLogger", l, 0, NoHeaders) : l \in {"nil", "L1", "L2"}}
        \cup {Option("WithServiceName", n, 0, NoHeaders) : n \in {"orders", "billing"}}

\* c.Headers[key] = value on a Go map
MapSet(m, key, value) ==
    [k \in DOMAIN m \cup {key} |-> IF k = key THEN value ELSE m[k]]

\* options.go:54-58
WithBaseURL(cl, baseURL) == [cl EXCEPT !.BaseURL = baseURL]

\* options.go:61-65
WithHTTPClient(cl, httpClient) == [cl EXCEPT !.HTTPClient = httpClient]

\* options.go:68-72
WithHeader(cl, key, value) == [cl EXCEPT !.Headers = MapSet(@, key, value)]

\* The given map replaces the Headers of the Client.
WithHeaders_Replaces(cl, headers) == [cl EXCEPT !.Headers = headers]

\* options.go:75-81: every entry of the given map is assigned
WithHeaders(cl, headers) ==
    [cl EXCEPT !.Headers =
        [k \in DOMAIN @ \cup DOMAIN headers |->
            IF k \in DOMAIN headers THEN headers[k] ELSE @[k]]]

\* options.go:84-88
WithTimeout(cl, timeout) == [cl EXCEPT !.Timeout = timeout]

\* options.go:91-95
WithLogger(cl, log) == [cl EXCEPT !.Logger = log]

\* options.go:98-102
WithServiceName(cl, name) == [cl EXCEPT !.ServiceName = name]

\* client.go:41: opt(c)
ApplyOption(cl, o) ==
    CASE o.name = "WithBaseURL" -> WithBaseURL(cl, o.s)
      [] o.name = "WithHTTPClient" -> WithHTTPClient(cl, [ptr |-> o.s, Timeout |-> o.n])
      [] o.name = "WithHeader" -> WithHeader(cl, o.s, o.h[o.s])
      [] o.name = "WithHeaders" -> WithHeaders(cl, o.h)
      [] o.name = "WithTimeout" -> WithTimeout(cl, o.n)
      [] o.name = "WithLogger" -> WithLogger(cl, o.s)
      [] o.name = "WithServiceName" -> WithServiceName(cl, o.s)

\* client.go:30-37: NewClient is called with up to MaxOptions options.
InitNewClient ==
    /\ RequestIdle
    /\ WriteErrorIdle
    /\ RegistryIdle
    /\ ConcurrentIdle
    /\ ValidatorIdle
    /\ RouterIdle
    /\ FormatIdle
    /\ BusinessDaysIdle
    /\ client = DefaultClient
    /\ opts \in UNION {[1..n -> ClientOptions] : n \in 0..MaxOptions}
    /\ applied = 0
    /\ npc = "options"
    /\ out = NoOut

\* client.go:40-42: the next option is applied
ApplyNextOption ==
    /\ npc = "options"
    /\ applied < Len(opts)
    /\ client' = ApplyOption(client, opts[applied + 1])
    /\ applied' = applied + 1
    /\ UNCHANGED << otherThanNewClient, opts, npc, out >>

\* The logger of logger.New(WithServiceName(name), WithInitialFields(...)).
DefaultLogger(name) == "default(" \o name \o ")"

\* The error of logger.New is dropped and the Client is returned without a logger.
BuildDefaultLogger_SwallowsError ==
    /\ npc = "options"
    /\ applied = Len(opts)
    /\ client.Logger = "nil"
    /\ \E built \in BOOLEAN :
         client' = IF built THEN [client EXCEPT !.Logger = DefaultLogger(client.ServiceName)]
                   ELSE client
    /\ npc' = "timeout"
    /\ UNCHANGED << otherThanNewClient, opts, applied, out >>

\* client.go:45-60: no logger after the options; logger.New builds one or fails
\* (part_015:175-188, 46-86: the level or the zap configuration is rejected).
BuildDefaultLogger ==
    /\ npc = "options"
    /\ applied = Len(opts)
    /\ client.Logger = "nil"
    /\ \E built \in BOOLEAN :
         IF built
         THEN /\ client' = [client EXCEPT !.Logger = DefaultLogger(client.ServiceName)]
              /\ npc' = "timeout"
              /\ UNCHANGED out
         ELSE /\ out' = [isNil |-> TRUE, client |-> NoClient, err |-> "logger.New failed"]
              /\ npc' = "returned"
              /\ UNCHANGED client
    /\ UNCHANGED << otherThanNewClient, opts, applied >>

\* client.go:45: a logger was given by an option
LoggerGiven ==
    /\ npc = "options"
    /\ applied = Len(opts)
    /\ client.Logger # "nil"
    /\ npc' = "timeout"
    /\ UNCHANGED << otherThanNewClient, client, opts, applied, out >>

\* An HTTP client given by WithHTTPClient keeps its own Timeout.
ConfigureTimeout_KeepsInjected ==
    /\ npc = "timeout"
    /\ IF client.HTTPClient.ptr = "nil"
         THEN /\ npc' = "panicked"
              /\ UNCHANGED << client, out >>
         ELSE /\ client' = IF client.HTTPClient.ptr = "default"
                           THEN [client EXCEPT !.HTTPClient.Timeout = client.Timeout]
                           ELSE client
              /\ out' = [isNil |-> FALSE, client |-> client', err |-> "nil"]
              /\ npc' = "returned"
    /\ UNCHANGED << otherThanNewClient, opts, applied >>

\* client.go:63-65: the timeout is copied into the HTTP client and the Client
\* is returned; a nil HTTPClient makes the assignment panic.
ConfigureTimeout ==
    /\ npc = "timeout"
    /\ IF client.HTTPClient.ptr = "nil"
         THEN /\ npc' = "panicked"
              /\ UNCHANGED << client, out >>
         ELSE /\ client' = [client EXCEPT !.HTTPClient.Timeout = client.Timeout]
              /\ out' = [isNil |-> FALSE, client |-> client', err |-> "nil"]
              /\ npc' = "returned"
    /\ UNCHANGED << otherThanNewClient, opts, applied >>

NextNewClient ==
    \/ ApplyNextOption
    \/ BuildDefaultLogger
    \/ LoggerGiven
    \/ ConfigureTimeout

SpecNewClient == InitNewClient /\ [][NextNewClient]_vars

(***************************************************************************)
(* Properties of NewClient.                                                *)
(***************************************************************************)

\* The positions in opts, among the first n, of the options made by With<name>.
Setters(name, n) == {i \in 1..n : opts[i].name = name}

\* The positions, among the first n, of the options that assign header k.
HeaderSetters(k, n) ==
    {i \in 1..n : opts[i].name \in {"WithHeader", "WithHeaders"} /\ k \in DOMAIN opts[i].h}

Latest(S) == CHOOSE i \in S : \A j \in S : j <= i

\* The fields of cl are those the first n options leave, the last one that
\* sets a field deciding it.
FollowsOptions(cl, n) ==
    /\ cl.BaseURL = IF Setters("WithBaseURL", n) = {} THEN ""
                    ELSE opts[Latest(Setters("WithBaseURL", n))].s
    /\ cl.Timeout = IF Setters("WithTimeout", n) = {} THEN DefaultTimeout
                    ELSE opts[Latest(Setters("WithTimeout", n))].n
    /\ cl.ServiceName = IF Setters("WithServiceName", n) = {} THEN ""
                        ELSE opts[Latest(Setters("WithServiceName", n))].s
    /\ cl.HTTPClient.ptr = IF Setters("WithHTTPClient", n) = {} THEN "default"
                           ELSE opts[Latest(Setters("WithHTTPClient", n))].s
    /\ LET given == IF Setters("WithLogger", n) = {} THEN "nil"
                    ELSE opts[Latest(Setters("WithLogger", n))].s
       IN  \/ cl.Logger = given
           \/ given = "nil" /\ npc # "options" /\ cl.Logger = DefaultLogger(cl.ServiceName)
    /\ DOMAIN cl.Headers = {k \in {"X-Api-Key", "content-type"} : HeaderSetters(k, n) # {}}
    /\ \A k \in DOMAIN cl.Headers : cl.Headers[k] = opts[Latest(HeaderSetters(k, n))].h[k]

\* C13: NewClient applies its options in the order given: the last option
\* that sets BaseURL, Timeout, ServiceName, Logger or HTTPClient decides the
\* field, and WithHeader/WithHeaders merge into Headers: a key set earlier
\* survives, and for a repeated key the later value wins.  (A nil logger
\* given last is replaced by the default logger, as if none was given.)
Thm_C13 ==
    /\ npc \in {"options", "timeout", "panicked"} => FollowsOptions(client, applied)
    /\ (npc = "returned" /\ ~out.isNil)
          => /\ applied = Len(opts)
             /\ FollowsOptions(out.client, Len(opts))
             /\ out.client.Retries = DefaultRetries

Wit_C13 ==
    /\ npc = "returned" /\ ~out.isNil /\ Len(opts) = 3
    /\ opts[1] = Option("WithHeaders", "", 0,
                        [k \in {"X-Api-Key", "content-type"} |->
                            IF k = "X-Api-Key" THEN "key-3" ELSE "text/csv"])
    /\ opts[2] = Option("WithHeader", "X-Api-Key", 0, [k \in {"X-Api-Key"} |-> "key-1"])
    /\ opts[3] = Option("WithHeaders", "", 0, [k \in {"content-type"} |-> "text/xml"])
    /\ out.client.Headers["X-Api-Key"] = "key-1"
    /\ out.client.Headers["content-type"] = "text/xml"

\* C14: when the options leave no logger and building the default logger
\* fails, NewClient returns that error and a nil Client; a Client it returns
\* always has a logger, and it returns a Client exactly when it returns no
\* error.
Thm_C14 ==
    npc = "returned"
        => /\ out.isNil <=> out.err # "nil"
           /\ ~out.isNil => out.client.Logger # "nil"
           /\ out.isNil => (client.Logger = "nil" /\ out.err = "logger.New failed")

Wit_C14 ==
    /\ npc = "returned" /\ out.isNil /\ out.err = "logger.New failed"
    /\ Len(opts) = 2 /\ Setters("WithLogger", 2) = {}

(***************************************************************************)
(* api.WriteError and api.WriteJSON, src/api/response.go:84-101, 124-139,  *)
(* on a fresh http.ResponseWriter.                                         *)
(***************************************************************************)

\* response.go:40: http.StatusInternalServerError
StatusInternalServerError == 500

\* The StatusCode of the api.Error values; 0 is that of the zero Error.
APIStatusCodes == {0, 400, 401, 403, 404, 409, 422, 500, 503}

Messages == {"invalid request", "resource not found", "test error"}

\* The errors WriteError is called with: an api.Error value, a pointer to
\* one, an api.Error wrapped by fmt.Errorf("handler: %w"), an errors.New
\* value, and nil.
WriteErrorInputs ==
    [type : {"api.Error", "*api.Error", "fmt.wrapError"},
     StatusCode : APIStatusCodes, Message : Messages]
        \cup [type : {"errorString"}, StatusCode : {0}, Message : Messages]
        \cup {[type |-> "nil", StatusCode |-> 0, Message |-> ""]}

\* response.go:24-26: Error.Error()
APIErrorString(statusCode, message) ==
    "API Error " \o ToString(statusCode) \o ": " \o message

\* err.Error() of each input
ErrorString(e) ==
    CASE e.type \in {"api.Error", "*api.Error"} -> APIErrorString(e.StatusCode, e.Message)
      [] e.type = "fmt.wrapError" -> "handler: " \o APIErrorString(e.StatusCode, e.Message)
      [] OTHER -> e.Message

\* response.go:30-35
NewError(statusCode, e) == [StatusCode |-> statusCode, Message |-> ErrorString(e)]

\* response.go:39-41
ServerError(e) == NewError(StatusInternalServerError, e)

\* Every error that is or wraps an api.Error keeps its status, as errors.As would find it.
ClassifyError_ErrorsAs(e) ==
    IF e.type \in {"api.Error", "*api.Error", "fmt.wrapError"}
    THEN [apiErr |-> [StatusCode |-> e.StatusCode, Message |-> e.Message],
          statusCode |-> e.StatusCode]
    ELSE [apiErr |-> ServerError(e), statusCode |-> StatusInternalServerError]

\* response.go:128-136: the type assertion err.(Error) holds for a value of
\* type Error only
ClassifyError(e) ==
    IF e.type = "api.Error"
    THEN [apiErr |-> [StatusCode |-> e.StatusCode, Message |-> e.Message],
          statusCode |-> e.StatusCode]
    ELSE [apiErr |-> ServerError(e), statusCode |-> StatusInternalServerError]

\* response.go:85 with response.go:18-21: json.MarshalIndent of
\* Envelope{"error": apiErr}, the fields under the names of their json tags
MarshalEnvelope(apiErr) ==
    [error |-> [status_code |-> apiErr.StatusCode, message |-> apiErr.Message]]

\* net/http checkWriteHeaderCode: WriteHeader panics on any other code
ValidStatusCode(code) == code >= 100 /\ code <= 999

InitWriteError ==
    /\ RequestIdle
    /\ NewClientIdle
    /\ RegistryIdle
    /\ ConcurrentIdle
    /\ ValidatorIdle
    /\ RouterIdle
    /\ FormatIdle
    /\ BusinessDaysIdle
    /\ w = NoWriter
    /\ werr \in WriteErrorInputs
    /\ wcall = NoWriteCall
    /\ wpc = "start"

\* response.go:125-136; ServerError(nil) dereferences nil and panics
WriteErrorClassify ==
    /\ wpc = "start"
    /\ IF werr.type = "nil"
         THEN wpc' = "panicked" /\ UNCHANGED wcall
         ELSE /\ wcall' = [wcall EXCEPT !.apiErr = ClassifyError(werr).apiErr,
                                        !.statusCode = ClassifyError(werr).statusCode]
              /\ wpc' = "marshal"
    /\ UNCHANGED << otherThanWriteError, w, werr >>

\* response.go:85-90
WriteJSONMarshal ==
    /\ wpc = "marshal"
    /\ wcall' = [wcall EXCEPT !.js = MarshalEnvelope(wcall.apiErr)]
    /\ wpc' = "headers"
    /\ UNCHANGED << otherThanWriteError, w, werr >>

\* response.go:92-96: no extra headers are given (nil); Content-Type is set
WriteJSONContentType ==
    /\ wpc = "headers"
    /\ w' = [w EXCEPT !.Header = HeaderSet(@, "Content-Type", "application/json")]
    /\ wpc' = "writeheader"
    /\ UNCHANGED << otherThanWriteError, werr, wcall >>

\* response.go:97: w.WriteHeader(status)
WriteJSONWriteHeader ==
    /\ wpc = "writeheader"
    /\ IF ~ValidStatusCode(wcall.statusCode)
         THEN wpc' = "panicked" /\ UNCHANGED w
         ELSE /\ w' = IF w.wroteHeader THEN w
                      ELSE [w EXCEPT !.wroteHeader = TRUE, !.Code = wcall.statusCode]
              /\ wpc' = "write"
    /\ UNCHANGED << otherThanWriteError, werr, wcall >>

\* response.go:98-100: w.Write(js)
WriteJSONWrite ==
    /\ wpc = "write"
    /\ w' = [w EXCEPT !.Body = Append(@, wcall.js)]
    /\ wpc' = "done"
    /\ UNCHANGED << otherThanWriteError, werr, wcall >>

NextWriteError ==
    \/ WriteErrorClassify
    \/ WriteJSONMarshal
    \/ WriteJSONContentType
    \/ WriteJSONWriteHeader
    \/ WriteJSONWrite

SpecWriteError == InitWriteError /\ [][NextWriteError]_vars

(***************************************************************************)
(* Properties of api.WriteError.                                           *)
(***************************************************************************)

\* C20: WriteError answers with the StatusCode of an api.Error value, as
\* HTTP status and as error.status_code of the body, and with 500 for every
\* other error; the two are always equal and the body is the envelope
\* {"error": {status_code, message}} with the error's message.
Thm_C20 ==
    wpc = "done"
        => /\ w.Code = (IF werr.type = "api.Error" THEN werr.StatusCode ELSE 500)
           /\ w.Header = [k \in {"Content-Type"} |-> "application/json"]
           /\ Len(w.Body) = 1
           /\ DOMAIN w.Body[1] = {"error"}
           /\ DOMAIN w.Body[1].error = {"status_code", "message"}
           /\ w.Body[1].error.status_code = w.Code
           /\ w.Body[1].error.message =
                 (IF werr.type = "api.Error" THEN werr.Message ELSE ErrorString(werr))

Wit_C20 ==
    /\ wpc = "done"
    /\ werr = [type |-> "api.Error", StatusCode |-> 404, Message |-> "resource not found"]
    /\ w.Code = 404
    /\ w.Body = << [error |-> [status_code |-> 404, message |-> "resource not found"]] >>

(***************************************************************************)
(* Further properties of Client.Request and NewClient.                     *)
(***************************************************************************)

\* C26: Request checks the caller's context before each new attempt: once
\* the caller's context is done, no new transport send is started.
Claim_C26 ==
    [][sends' > sends => ctxErr = "none"]_vars

\* C27: at most one transport send is in flight at any time: an attempt
\* starts only when no send is in flight, every earlier attempt has returned
\* with a failure, and the backoff wait after each of them has elapsed.
Thm_C27 ==
    [][sends' > sends
          => /\ sends' = sends + 1
             /\ pc = "loop" /\ pc' = "inflight"
             /\ failures = sends
             /\ attempt = sends
             /\ Len(waits) = sends
             /\ resp.isNil]_vars

Wit_C27 ==
    /\ pc = "inflight" /\ sends = 3 /\ failures = 2 /\ waits = << 100, 200 >>

\* C29: the Client NewClient returns has HTTPClient.Timeout equal to its
\* Timeout, the value of the last WithTimeout or 30 s, wherever
\* WithHTTPClient stands among the options; the Timeout of an injected HTTP
\* client is overwritten.
Thm_C29 ==
    (npc = "returned" /\ ~out.isNil)
        => /\ out.client.HTTPClient.Timeout = out.client.Timeout
           /\ out.client.Timeout = (IF Setters("WithTimeout", Len(opts)) = {} THEN 30
                                    ELSE opts[Latest(Setters("WithTimeout", Len(opts)))].n)

Wit_C29 ==
    /\ npc = "returned" /\ ~out.isNil /\ Len(opts) = 2
    /\ opts[1] = Option("WithTimeout", "", 5, NoHeaders)
    /\ opts[2] = Option("WithHTTPClient", "H1", 10, NoHeaders)
    /\ out.client.HTTPClient = [ptr |-> "H1", Timeout |-> 5]

(***************************************************************************)
(* The registry of option names, src/rest/options.go:16-51: goroutines     *)
(* that make options (every With... constructor calls registerOption) and  *)
(* that name them (OptionToString).  optionNames is a plain Go map with no *)
(* lock: an access takes time, and the runtime may abort the process when  *)
(* it notices a write concurrent with another access.                      *)
(***************************************************************************)

\* The goroutines that use the package at once.
NumGoroutines == 2

Goroutines == 1..NumGoroutines

\* options.go:53-102: the constructors; each registers the code pointer of
\* its closure under its own name
Constructors ==
    {"WithBaseURL", "WithHTTPClient", "WithHeader", "WithHeaders", "WithTimeout",
     "WithLogger", "WithServiceName"}

\* The options OptionToString is asked to name: two made by constructors
\* and a function literal of the caller.
NamedOptions == {"WithBaseURL", "WithHeader", "func1"}

GoroutineIdle == [op |-> "none", arg |-> "none", at |-> "idle", ret |-> ""]

\* options.go:33-50: the registered name, else the last part of the
\* function's runtime name
OptionToString(names, option) ==
    IF option \in names THEN option ELSE "func1"

\* registerOption writes the map, OptionToString reads it.
IsWrite(call) == call.op \in Constructors

\* Two accesses of the map overlap and one of them is a write.
Racing ==
    \E g1, g2 \in Goroutines :
        /\ g1 # g2
        /\ gpc[g1].at = "map" /\ gpc[g2].at = "map"
        /\ IsWrite(gpc[g1]) \/ IsWrite(gpc[g2])

InitRegistry ==
    /\ RequestIdle
    /\ NewClientIdle
    /\ WriteErrorIdle
    /\ ConcurrentIdle
    /\ ValidatorIdle
    /\ RouterIdle
    /\ FormatIdle
    /\ BusinessDaysIdle
    /\ optionNames = {}
    /\ gpc = [g \in Goroutines |-> GoroutineIdle]
    /\ fatal = FALSE

\* options.go:22: a constructor reaches optionNames[ptr] = name
RegisterOptionBegin(g) ==
    /\ ~fatal
    /\ gpc[g].at = "idle"
    /\ \E name \in Constructors :
         gpc' = [gpc EXCEPT ![g] = [op |-> name, arg |-> name, at |-> "map", ret |-> ""]]
    /\ UNCHANGED << otherThanRegistry, optionNames, fatal >>

\* options.go:22-24: the assignment is done and the option is returned
RegisterOptionEnd(g) ==
    /\ ~fatal
    /\ gpc[g].at = "map"
    /\ IsWrite(gpc[g])
    /\ optionNames' = optionNames \cup {gpc[g].arg}
    /\ gpc' = [gpc EXCEPT ![g] = GoroutineIdle]
    /\ UNCHANGED << otherThanRegistry, fatal >>

\* options.go:31-34: OptionToString reaches the lookup optionNames[ptr]
OptionToStringBegin(g) ==
    /\ ~fatal
    /\ gpc[g].at = "idle"
    /\ \E option \in NamedOptions :
         gpc' = [gpc EXCEPT ![g] =
                    [op |-> "OptionToString", arg |-> option, at |-> "map", ret |-> ""]]
    /\ UNCHANGED << otherThanRegistry, optionNames, fatal >>

\* options.go:34-50: the lookup is done and the name is returned
OptionToStringEnd(g) ==
    /\ ~fatal
    /\ gpc[g].at = "map"
    /\ ~IsWrite(gpc[g])
    /\ gpc' = [gpc EXCEPT ![g].at = "returned",
                          ![g].ret = OptionToString(optionNames, gpc[g].arg)]
    /\ UNCHANGED << otherThanRegistry, optionNames, fatal >>

\* The caller goes on with the name.
GoroutineContinues(g) ==
    /\ ~fatal
    /\ gpc[g].at = "returned"
    /\ gpc' = [gpc EXCEPT ![g] = GoroutineIdle]
    /\ UNCHANGED << otherThanRegistry, optionNames, fatal >>

\* runtime: "fatal error: concurrent map writes" / "concurrent map read and
\* map write"; the check is best effort, so it may also not fire
RuntimeFatal ==
    /\ ~fatal
    /\ Racing
    /\ fatal' = TRUE
    /\ UNCHANGED << otherThanRegistry, optionNames, gpc >>

NextRegistry ==
    \/ \E g \in Goroutines : RegisterOptionBegin(g)
    \/ \E g \in Goroutines : RegisterOptionEnd(g)
    \/ \E g \in Goroutines : OptionToStringBegin(g)
    \/ \E g \in Goroutines : OptionToStringEnd(g)
    \/ \E g \in Goroutines : GoroutineContinues(g)
    \/ RuntimeFatal

SpecRegistry == InitRegistry /\ [][NextRegistry]_vars

\* C30: the option constructors and OptionToString may be called from
\* several goroutines at once: no interleaving has two unsynchronized writes,
\* or a write concurrent with a read, on optionNames, and the process is
\* never aborted for it.
Claim_C30 ==
    ~Racing /\ ~fatal

(***************************************************************************)
(* Several callers issue Request calls (through Request or the verb        *)
(* methods, client.go:69-204) on one constructed Client at the same time.  *)
(* Each call runs the steps of Request on its own locals; the Client is    *)
(* the only state the calls share.                                         *)
(***************************************************************************)

\* The callers that use the Client at once.
NumCallers == 2

Callers == 1..NumCallers

\* client.go:181-203: the verb methods pass their verb to Request
Methods == {"GET", "POST", "DELETE"}

\* What HTTPClient.Do gives one attempt: a transport failure or a response.
TransportResults ==
    [isErr : {TRUE}, text : {"connection refused"}, StatusCode : {0}]
        \cup [isErr : {FALSE}, text : {""}, StatusCode : {200, 404, 500}]

EmptyBody == Doc("", "invalid", Absent, Absent)

NewCall(method) ==
    [method |-> method, pc |-> "start", req |-> NoRequest, attempt |-> 0,
     log |-> << >>, result |-> NilError]

InitConcurrent ==
    /\ RequestIdle
    /\ NewClientIdle
    /\ WriteErrorIdle
    /\ RegistryIdle
    /\ ValidatorIdle
    /\ RouterIdle
    /\ FormatIdle
    /\ BusinessDaysIdle
    /\ shared \in [BaseURL : BaseURLs, Headers : {NoHeaders, [k \in {"content-type"} |-> "text/plain"]},
                   Retries : 0..1, Timeout : {DefaultTimeout}]
    /\ constructed = shared
    /\ calls \in [Callers -> {NewCall(m) : m \in Methods}]

\* The defaults are stored in the Client's own Headers map on the way.
CallPrepare_WritesClientHeaders(i) ==
    /\ calls[i].pc = "start"
    /\ shared' = [shared EXCEPT !.Headers = RequestHeader(shared.Headers)]
    /\ calls' = [calls EXCEPT ![i].pc = "loop",
                              ![i].req = [url |-> RequestURL(shared.BaseURL, "/users"),
                                          Header |-> RequestHeader(shared.Headers)]]
    /\ UNCHANGED << otherThanConcurrent, constructed >>

\* client.go:70-96: the call builds its own request from the Client's fields
CallPrepare(i) ==
    /\ calls[i].pc = "start"
    /\ calls' = [calls EXCEPT ![i].pc = "loop",
                              ![i].req = [url |-> RequestURL(shared.BaseURL, "/users"),
                                          Header |-> RequestHeader(shared.Headers)]]
    /\ UNCHANGED << otherThanConcurrent, shared, constructed >>

\* client.go:101-102
CallDoStart(i) ==
    /\ calls[i].pc = "loop"
    /\ LoopCondition(calls[i].attempt, shared.Retries)
    /\ calls' = [calls EXCEPT ![i].pc = "inflight"]
    /\ UNCHANGED << otherThanConcurrent, shared, constructed >>

\* client.go:102-122 and 142-168: Do returns to this call; a response ends
\* the call (no target is given), a failure leads to the backoff wait or,
\* on the last attempt, out of the loop
CallDoReturns(i) ==
    /\ calls[i].pc = "inflight"
    /\ \E t \in TransportResults :
         calls' = [calls EXCEPT
            ![i].log = Append(@, t),
            ![i].pc = IF ~t.isErr THEN "done"
                      ELSE IF calls[i].attempt < shared.Retries THEN "backoff" ELSE "loop",
            ![i].attempt = IF t.isErr /\ ~(calls[i].attempt < shared.Retries) THEN @ + 1 ELSE @,
            ![i].result = IF t.isErr \/ IsSuccessStatus(t.StatusCode) THEN NilError
                          ELSE ErrorFromResponse(t.StatusCode, EmptyBody)]
    /\ UNCHANGED << otherThanConcurrent, shared, constructed >>

\* client.go:116-121: the timer of this call's wait fires
CallBackoffElapsed(i) ==
    /\ calls[i].pc = "backoff"
    /\ calls' = [calls EXCEPT ![i].pc = "loop", ![i].attempt = @ + 1]
    /\ UNCHANGED << otherThanConcurrent, shared, constructed >>

\* client.go:124-129: every attempt of this call failed
CallAttemptsExhausted(i) ==
    /\ calls[i].pc = "loop"
    /\ ~LoopCondition(calls[i].attempt, shared.Retries)
    /\ calls' = [calls EXCEPT
          ![i].pc = "done",
          ![i].result = ClientError(ErrConnectionFailed,
                                    calls[i].log[Len(calls[i].log)].text, "")]
    /\ UNCHANGED << otherThanConcurrent, shared, constructed >>

NextConcurrent ==
    \/ \E i \in Callers : CallPrepare(i)
    \/ \E i \in Callers : CallDoStart(i)
    \/ \E i \in Callers : CallDoReturns(i)
    \/ \E i \in Callers : CallBackoffElapsed(i)
    \/ \E i \in Callers : CallAttemptsExhausted(i)

SpecConcurrent == InitConcurrent /\ [][NextConcurrent]_vars

\* What a finished call returns, from the results its own attempts got.
OwnOutcome(log) ==
    LET last == log[Len(log)]
    IN  IF last.isErr THEN ClientError(ErrConnectionFailed, last.text, "")
        ELSE IF last.StatusCode \in 200..299 THEN NilError
        ELSE ClientError(getErrorByStatusCode(last.StatusCode), "", ToString(last.StatusCode))

\* C28: Request and the verb methods never modify the Client's BaseURL,
\* Headers, Retries or Timeout: under every interleaving of concurrent calls
\* the Client stays as constructed, every call builds its request from that
\* configuration, makes at most Retries + 1 attempts, and returns what its
\* own transport results determine.
Thm_C28 ==
    /\ shared = constructed
    /\ \A i \in Callers :
         /\ Len(calls[i].log) <= constructed.Retries + 1
         /\ calls[i].pc # "start"
              => /\ calls[i].req.url = constructed.BaseURL \o "/users"
                 /\ \A k \in DOMAIN constructed.Headers :
                       calls[i].req.Header[CanonicalMIMEHeaderKey(k)] = constructed.Headers[k]
         /\ calls[i].pc = "done"
              => /\ calls[i].result = OwnOutcome(calls[i].log)
                 /\ \A n \in 1..(Len(calls[i].log) - 1) : calls[i].log[n].isErr

Wit_C28 ==
    /\ \A i \in Callers : calls[i].pc = "done"
    /\ calls[1].result = NilError /\ Len(calls[1].log) = 2
    /\ calls[2].result.kind = ErrConnectionFailed
    /\ shared.Retries = 1 /\ shared.BaseURL = "http://x"

(***************************************************************************)
(* validate.Validator, src/validate/validate.go:10-87: a sequence of       *)
(* calls on one Validator made by New.                                     *)
(***************************************************************************)

\* The longest sequence of calls made on the Validator.
MaxCalls == 3

Fields == {"email", "name"}

\* The values the checks are called with.
Values == {"", "  ", "ab", "red", "abcdef", "a@b.co"}

\* The messages callers give to AddError, Check and Matches.
CallerMessages == {"first error", "second error"}

\* The limits given to MaxLength and MinLength.
Limits == {3, 5}

\* The lists given to In.
PermittedLists == {<< >>, << "red", "ab" >>}

\* The patterns given to Matches, each as the set of the values it matches:
\* ^[a-z]+$ and ^.{0,3}$
Patterns == {{"ab", "red", "abcdef"}, {"", "  ", "ab", "red"}}

\* validate.go:80: EmailRX, as the set of the values it matches
EmailRX == {"a@b.co"}

\* strings.TrimSpace
TrimSpace(value) == IF value = "  " THEN "" ELSE value

\* The later message replaces the recorded one.
AddError_Overwrites(errs, field, message) ==
    [f \in DOMAIN errs \cup {field} |-> IF f = field THEN message ELSE errs[f]]

\* validate.go:28-32
AddError(errs, field, message) ==
    IF field \in DOMAIN errs THEN errs
    ELSE [f \in DOMAIN errs \cup {field} |-> IF f = field THEN message ELSE errs[f]]

\* validate.go:23-25
Valid(errs) == DOMAIN errs = {}

\* A check that records message for field when failed holds
\* (validate.go:36-38, 43-45, 50-52, 57-59, 64-66, 71-77, 83-85).
CheckCall(failed, field, message) ==
    /\ Len(vlog) < MaxCalls
    /\ Errors' = IF failed THEN AddError(Errors, field, message) ELSE Errors
    /\ vlog' = Append(vlog, [field |-> field, failed |-> failed, message |-> message])
    /\ UNCHANGED otherThanValidator

\* validate.go:16-20: New
InitValidator ==
    /\ RequestIdle
    /\ NewClientIdle
    /\ WriteErrorIdle
    /\ RegistryIdle
    /\ ConcurrentIdle
    /\ RouterIdle
    /\ FormatIdle
    /\ BusinessDaysIdle
    /\ Errors = << >>
    /\ vlog = << >>

\* validate.go:28-32
CallAddError ==
    \E field \in Fields, message \in CallerMessages :
        CheckCall(TRUE, field, message)

\* validate.go:35-39
CallCheck ==
    \E ok \in BOOLEAN, field \in Fields, message \in CallerMessages :
        CheckCall(~ok, field, message)

\* validate.go:42-46
CallNotBlank ==
    \E value \in Values, field \in Fields :
        CheckCall(TrimSpace(value) = "", field, "This field cannot be blank")

\* validate.go:49-53
CallMaxLength ==
    \E value \in Values, n \in Limits, field \in Fields :
        CheckCall(Len(value) > n, field,
                  "This field cannot be more than " \o ToString(n) \o " characters")

\* validate.go:56-60
CallMinLength ==
    \E value \in Values, n \in Limits, field \in Fields :
        CheckCall(Len(value) < n, field,
                  "This field must be at least " \o ToString(n) \o " characters")

\* validate.go:63-67
CallMatches ==
    \E value \in Values, pattern \in Patterns, field \in Fields, message \in CallerMessages :
        CheckCall(value \notin pattern, field, message)

\* validate.go:70-77
CallIn ==
    \E value \in Values, list \in PermittedLists, field \in Fields :
        CheckCall(~\E i \in 1..Len(list) : list[i] = value, field,
                  "This field contains an invalid value")

\* validate.go:82-86
CallIsEmail ==
    \E value \in Values, field \in Fields :
        CheckCall(value \notin EmailRX, field, "This field must be a valid email address")

NextValidator ==
    \/ CallAddError
    \/ CallCheck
    \/ CallNotBlank
    \/ CallMaxLength
    \/ CallMinLength
    \/ CallMatches
    \/ CallIn
    \/ CallIsEmail

SpecValidator == InitValidator /\ [][NextValidator]_vars

\* The positions in vlog of the failing calls for field f.
Failures(f) == {i \in 1..Len(vlog) : vlog[i].field = f /\ vlog[i].failed}

\* C21: across any sequence of AddError, Check, NotBlank, MaxLength,
\* MinLength, Matches, In and IsEmail calls on one Validator, the message
\* recorded for a field is that of the first failing call for the field; a
\* later failure never overwrites it and no call removes a recorded error.
Thm_C21 ==
    /\ DOMAIN Errors = {f \in Fields : Failures(f) # {}}
    /\ \A f \in DOMAIN Errors :
          Errors[f] = vlog[CHOOSE i \in Failures(f) : \A j \in Failures(f) : i <= j].message
    /\ (DOMAIN Errors = {}) <=> \A i \in 1..Len(vlog) : ~vlog[i].failed

Wit_C21 ==
    /\ Len(vlog) = 3
    /\ vlog[1] = [field |-> "email", failed |-> TRUE, message |-> "This field cannot be blank"]
    /\ vlog[2] = [field |-> "email", failed |-> TRUE,
                  message |-> "This field must be a valid email address"]
    /\ vlog[3] = [field |-> "email", failed |-> TRUE, message |-> "second error"]
    /\ Errors = [f \in {"email"} |-> "This field cannot be blank"]

(***************************************************************************)
(* Package router, src/unnamed/part_005:12-179, on the chi.Mux it embeds.  *)
(* chi keeps a mux's middlewares in a slice, builds the handler chain when *)
(* the first route is registered, panics on Use after that, and answers    *)
(* 404 without running any middleware while no route is registered.        *)
(***************************************************************************)

\* part_005:22-37: the switches of Options
RouterOptions ==
    [EnableRequestID : BOOLEAN, EnableRecovery : BOOLEAN, EnableLogging : BOOLEAN,
     EnableTimeout : BOOLEAN, EnableHealthcheck : BOOLEAN]

\* part_005:54-69
DefaultOptions ==
    [EnableRequestID |-> TRUE, EnableRecovery |-> TRUE, EnableLogging |-> TRUE,
     EnableTimeout |-> TRUE, EnableHealthcheck |-> TRUE]

\* part_005:83-97: the middlewares NewWithOptions installs, in order
OptionMiddlewares(options) ==
    (IF options.EnableRequestID THEN << "RequestID" >> ELSE << >>)
        \o (IF options.EnableRecovery THEN << "Recoverer" >> ELSE << >>)
        \o (IF options.EnableLogging THEN << "Logger" >> ELSE << >>)
        \o (IF options.EnableTimeout THEN << "Timeout" >> ELSE << >>)

\* part_005:99-104: r.Get("/health", ...)
HealthcheckRoutes(options) ==
    IF options.EnableHealthcheck THEN {"/health"} ELSE {}

\* The middlewares given to WithMiddleware and the paths requested.
CustomMiddlewares == {"testMiddleware", "authMiddleware"}
RequestPaths == {"/health", "/healthz", "/test"}

NoServed == [router |-> "", path |-> "", Code |-> 0, Body |-> "", via |-> << >>]

\* part_005:79-110: a router made by NewWithOptions (New with DefaultOptions)
InitRouter ==
    /\ RequestIdle
    /\ NewClientIdle
    /\ WriteErrorIdle
    /\ RegistryIdle
    /\ ConcurrentIdle
    /\ ValidatorIdle
    /\ FormatIdle
    /\ BusinessDaysIdle
    /\ \E options \in RouterOptions :
         /\ routers = [x \in {"r"} |-> [mux |-> 1, options |-> options]]
         /\ muxes = [i \in {1} |->
                        [middlewares |-> OptionMiddlewares(options),
                         routes |-> HealthcheckRoutes(options),
                         built |-> HealthcheckRoutes(options) # {}]]
    /\ served = NoServed
    /\ rpanic = FALSE

\* chi.Mux.Use: append, or panic once the handler chain is built
MuxUse(mux, m) == [mux EXCEPT !.middlewares = Append(@, m)]

\* part_005:162-173: r2 := r.WithMiddleware(m); the new Router holds the
\* same chi.Router as r, and Use is called on it
WithMiddleware ==
    /\ ~rpanic
    /\ "r2" \notin DOMAIN routers
    /\ \E m \in CustomMiddlewares :
         LET id == routers["r"].mux
         IN  IF muxes[id].built
             THEN /\ rpanic' = TRUE
                  /\ UNCHANGED << routers, muxes >>
             ELSE /\ routers' = [x \in {"r", "r2"} |-> routers["r"]]
                  /\ muxes' = [muxes EXCEPT ![id] = MuxUse(@, m)]
                  /\ UNCHANGED rpanic
    /\ UNCHANGED << otherThanRouter, served >>

\* x.Get("/test", handler): the route is added and the handler chain built
RegisterRoute ==
    /\ ~rpanic
    /\ \E x \in DOMAIN routers :
         muxes' = [muxes EXCEPT ![routers[x].mux].routes = @ \cup {"/test"},
                                ![routers[x].mux].built = TRUE]
    /\ UNCHANGED << otherThanRouter, routers, served, rpanic >>

\* The body each route's handler writes (part_005:100-103, router_test.go:241-244).
RouteBody(path) == IF path = "/test" THEN "test" ELSE "OK"

\* part_005:177-179: x.ServeHTTP(w, GET path)
ServeHTTP ==
    /\ ~rpanic
    /\ \E x \in DOMAIN routers, path \in RequestPaths :
         LET mux == muxes[routers[x].mux]
         IN  served' =
               [router |-> x, path |-> path,
                Code |-> IF mux.built /\ path \in mux.routes THEN 200 ELSE 404,
                Body |-> IF mux.built /\ path \in mux.routes THEN RouteBody(path)
                         ELSE "404 page not found",
                via |-> IF mux.built THEN mux.middlewares ELSE << >>]
    /\ UNCHANGED << otherThanRouter, routers, muxes, rpanic >>

NextRouter ==
    \/ WithMiddleware
    \/ RegisterRoute
    \/ ServeHTTP

SpecRouter == InitRouter /\ [][NextRouter]_vars

\* C22: with EnableHealthcheck true (the default of New) a GET /healthz is
\* answered with status 200 and body "OK"; with EnableHealthcheck false it
\* is answered with 404.
Claim_C22 ==
    (served.router = "r" /\ served.path = "/healthz")
        => IF routers["r"].options.EnableHealthcheck
           THEN served.Code = 200 /\ served.Body = "OK"
           ELSE served.Code = 404

\* C23: WithMiddleware makes a copy of the router with the additional
\* middleware: after r2 := r.WithMiddleware(m) the original router r is
\* unchanged, and requests served through r do not pass through m.
Claim_C23 ==
    /\ ~rpanic
    /\ \A i \in 1..Len(muxes[routers["r"].mux].middlewares) :
          muxes[routers["r"].mux].middlewares[i] \notin CustomMiddlewares
    /\ served.router = "r"
          => \A i \in 1..Len(served.via) : served.via[i] \notin CustomMiddlewares

(***************************************************************************)
(* str.FormatFloatWithCommas, src/unnamed/part_007:15-46.  A string is a   *)
(* sequence of one-character strings; the float is given by its sign, its  *)
(* integer part and its two decimals, as strconv.FormatFloat(f, 'f', 2, 64)*)
(* prints it.                                                              *)
(***************************************************************************)

\* The integer parts formatted: one to seven digits.
IntegerParts == {0, 7, 12, 123, 999, 1000, 1234, 12345, 123456, 1234567}

\* The two decimals formatted, in hundredths.
Hundredths == {0, 5, 56, 89}

Floats == [negative : BOOLEAN, int : IntegerParts, frac : Hundredths]

Digit(d) == ToString(d)

\* The decimal digits of n, most significant first.
RECURSIVE Digits(_)
Digits(n) == IF n < 10 THEN << Digit(n) >> ELSE Append(Digits(n \div 10), Digit(n % 10))

\* part_007:17-18: strconv.FormatFloat(f, 'f', 2, 64) split at "."
FormatFloatParts(f) ==
    << (IF f.negative THEN << "-" >> ELSE << >>) \o Digits(f.int),
       << Digit(f.frac \div 10), Digit(f.frac % 10) >> >>

\* part_007:40-46
ReverseString(s) == [k \in 1..Len(s) |-> s[Len(s) + 1 - k]]

\* The characters of s as one string.
RECURSIVE Text(_)
Text(s) == IF s = << >> THEN "" ELSE s[1] \o Text(Tail(s))

NewFormatCall(f) ==
    [f |-> f, pc |-> "start", parts |-> << >>, reversed |-> << >>, i |-> 0,
     reversedWithCommas |-> << >>, result |-> ""]

InitFormat ==
    /\ RequestIdle
    /\ NewClientIdle
    /\ WriteErrorIdle
    /\ RegistryIdle
    /\ ConcurrentIdle
    /\ ValidatorIdle
    /\ RouterIdle
    /\ BusinessDaysIdle
    /\ fcall \in {NewFormatCall(f) : f \in Floats}

\* part_007:17-21
FormatSplit ==
    /\ fcall.pc = "start"
    /\ fcall' = [fcall EXCEPT !.parts = FormatFloatParts(fcall.f),
                              !.reversed = ReverseString(FormatFloatParts(fcall.f)[1]),
                              !.reversedWithCommas = << >>,
                              !.i = 0,
                              !.pc = "loop"]
    /\ UNCHANGED otherThanFormat

\* part_007:23-28: one character of reversed (i counts from 0)
FormatLoop ==
    /\ fcall.pc = "loop"
    /\ fcall.i < Len(fcall.reversed)
    /\ fcall' = [fcall EXCEPT
          !.reversedWithCommas =
              (IF fcall.i > 0 /\ fcall.i % 3 = 0 THEN Append(@, ",") ELSE @)
                  \o << fcall.reversed[fcall.i + 1] >>,
          !.i = @ + 1]
    /\ UNCHANGED otherThanFormat

\* part_007:30-36
FormatReturn ==
    /\ fcall.pc = "loop"
    /\ fcall.i = Len(fcall.reversed)
    /\ fcall' = [fcall EXCEPT
          !.result = Text(ReverseString(fcall.reversedWithCommas)) \o "." \o Text(fcall.parts[2]),
          !.pc = "done"]
    /\ UNCHANGED otherThanFormat

NextFormat ==
    \/ FormatSplit
    \/ FormatLoop
    \/ FormatReturn

SpecFormat == InitFormat /\ [][NextFormat]_vars

\* n in decimal with a comma before every group of three digits.
RECURSIVE Grouped(_)
Grouped(n) ==
    IF n < 1000 THEN ToString(n)
    ELSE Grouped(n \div 1000) \o ","
           \o Text(<< Digit((n \div 100) % 10), Digit((n \div 10) % 10), Digit(n % 10) >>)

\* C24: FormatFloatWithCommas renders the integer part with a comma only
\* between two digits, every three digits from the right, then '.' and two
\* decimals; a negative value renders as '-' followed by the rendering of
\* its absolute value, for integer parts of every length.
Claim_C24 ==
    fcall.pc = "done"
        => fcall.result =
              (IF fcall.f.negative THEN "-" ELSE "") \o Grouped(fcall.f.int) \o "."
                  \o Text(<< Digit(fcall.f.frac \div 10), Digit(fcall.f.frac % 10) >>)

(***************************************************************************)
(* timeutils.AddBusinessDays, src/timeutils/timeutil.go:173-191.  A time   *)
(* is the number of its calendar day; day 0 is a Sunday, so the weekday of *)
(* day d is d % 7 with time.Sunday = 0 ... time.Saturday = 6.              *)
(***************************************************************************)

\* The largest number of business days added.
MaxBusinessDays == 6

\* The start days: two weeks, every weekday twice.
StartDays == 0..13

\* The weekday is Saturday only.
IsWeekend_SaturdayOnly(d) == d % 7 = 6

\* timeutil.go:174-177
IsWeekend(d) == d % 7 = 6 \/ d % 7 = 0

InitBusinessDays ==
    /\ RequestIdle
    /\ NewClientIdle
    /\ WriteErrorIdle
    /\ RegistryIdle
    /\ ConcurrentIdle
    /\ ValidatorIdle
    /\ RouterIdle
    /\ FormatIdle
    /\ bcall \in [t : StartDays, n : 0..MaxBusinessDays, days : {0}, result : {0}, pc : {"start"}]

\* timeutil.go:182: result := t
BusinessDaysStart ==
    /\ bcall.pc = "start"
    /\ bcall' = [bcall EXCEPT !.result = bcall.t, !.days = bcall.n, !.pc = "loop"]
    /\ UNCHANGED otherThanBusinessDays

\* timeutil.go:183-188: one pass of the loop
BusinessDaysLoop ==
    /\ bcall.pc = "loop"
    /\ bcall.days > 0
    /\ bcall' = [bcall EXCEPT !.result = @ + 1,
                              !.days = IF ~IsWeekend(bcall.result + 1) THEN @ - 1 ELSE @]
    /\ UNCHANGED otherThanBusinessDays

\* timeutil.go:183, 189: days > 0 fails and result is returned
BusinessDaysReturn ==
    /\ bcall.pc = "loop"
    /\ ~(bcall.days > 0)
    /\ bcall' = [bcall EXCEPT !.pc = "done"]
    /\ UNCHANGED otherThanBusinessDays

NextBusinessDays ==
    \/ BusinessDaysStart
    \/ BusinessDaysLoop
    \/ BusinessDaysReturn

\* The call is one goroutine that keeps running: a step that can be taken is taken.
SpecBusinessDays ==
    InitBusinessDays /\ [][NextBusinessDays]_vars /\ WF_vars(NextBusinessDays)

\* C25: for every start time t and every n >= 1, AddBusinessDays(t, n)
\* terminates and returns a day that is neither Saturday nor Sunday, with
\* exactly n non-weekend days in the interval (t, result]; for n = 0 it
\* returns t unchanged.
Thm_C25 ==
    /\ <>(bcall.pc = "done")
    /\ [](bcall.pc = "done"
             => IF bcall.n = 0 THEN bcall.result = bcall.t
                ELSE /\ bcall.result % 7 \notin {0, 6}
                     /\ Cardinality({d \in (bcall.t + 1)..bcall.result : d % 7 \notin {0, 6}})
                           = bcall.n)

Wit_C25 ==
    /\ bcall.pc = "done" /\ bcall.t = 5 /\ bcall.n = 6 /\ bcall.result = 15

====
